---- MODULE Spec2Model ----
(***************************************************************************)
(* Model of main.py: the sales-lead dashboard.  load_data() cleans the     *)
(* raw table read from Ventas.csv and derives the canonical columns; it is *)
(* cached, so it runs once.  Every user interaction reruns main(), which   *)
(* filters the canonical dataset and recomputes the headline metrics and   *)
(* the grouped tables.                                                     *)
(*                                                                         *)
(* Encoding of pandas cells: an optional value is a sequence, <<>> for a   *)
(* missing cell (NaN / NaT) and <<v>> for a value v.  Text is a sequence   *)
(* of one-character strings.  A timestamp is [y, m, d, hh, mm]; a float    *)
(* computed by a division is the exact fraction <<num, den>> in lowest     *)
(* terms, or <<>> for NaN.                                                 *)
(***************************************************************************)
EXTENDS Integers, Sequences, FiniteSets, TLC

VARIABLES
    raw,          \* Ventas.csv: [exists, rows], rows as read_csv returns them
    observed,     \* build: pandas' default for groupby(observed=...)
    argsort,      \* build: how the default (unstable) sort orders equal keys
    cache,        \* st.cache_data entry of load_data: <<>> or <<returned value>>
    screen,       \* last run of main(): "none", "error", "exception" or "dashboard"
    sel,          \* widget values of the last pass
    df_filtered,  \* filtered view of the last pass, with the columns main() adds
    metrics,      \* headline scalars of the last pass
    tables        \* grouped tables of the last pass

vars == <<raw, observed, argsort, cache, screen, sel, df_filtered, metrics, tables>>

----------------------------------------------------------------------------
(* Bounds of the model *)

MaxRows == 2

----------------------------------------------------------------------------
(* Cells and text *)

NaN == <<>>
NaT == <<>>
None == <<>>

notna(c) == c # <<>>
Val(c) == c[1]

Web == <<"W", "e", "b">>
Tel == <<"T", "e", "l">>
ProdA == <<"A">>
Todos == <<"T", "o", "d", "o", "s">>
Spaces == <<" ", " ">>

\* characters in code-point order, as Python compares str
Alphabet == <<" ", "A", "T", "W", "b", "d", "e", "l", "o", "s">>

CharRank(ch) == CHOOSE i \in 1..Len(Alphabet) : Alphabet[i] = ch

RECURSIVE StrLess(_, _)
StrLess(s, t) ==
    IF t = <<>> THEN FALSE
    ELSE IF s = <<>> THEN TRUE
    ELSE IF Head(s) # Head(t) THEN CharRank(Head(s)) < CharRank(Head(t))
    ELSE StrLess(Tail(s), Tail(t))

IsSpace(ch) == ch = " "

RECURSIVE LStrip(_)
LStrip(s) == IF s # <<>> /\ IsSpace(Head(s)) THEN LStrip(Tail(s)) ELSE s

RECURSIVE RStrip(_)
RStrip(s) ==
    IF s # <<>> /\ IsSpace(s[Len(s)]) THEN RStrip(SubSeq(s, 1, Len(s) - 1)) ELSE s

\* str.strip()
strip(s) == RStrip(LStrip(s))

----------------------------------------------------------------------------
(* Calendar *)

IsLeap(y) == (y % 4 = 0) /\ ((y % 100 # 0) \/ (y % 400 = 0))

DaysInMonth(y, m) ==
    IF m = 2 THEN (IF IsLeap(y) THEN 29 ELSE 28)
    ELSE IF m \in {4, 6, 9, 11} THEN 30 ELSE 31

\* days of the year before the first of each month, in a common year
DAYS_BEFORE_MONTH == <<0, 31, 59, 90, 120, 151, 181, 212, 243, 273, 304, 334>>

DaysBeforeMonth(y, m) == DAYS_BEFORE_MONTH[m] + (IF m > 2 /\ IsLeap(y) THEN 1 ELSE 0)

\* proleptic Gregorian ordinal of a date (date.toordinal)
Ordinal(y, m, d) ==
    LET p == y - 1
    IN  p * 365 + (p \div 4) - (p \div 100) + (p \div 400) + DaysBeforeMonth(y, m) + d

\* .dt.date, as a comparable day number
Date(ts) == Ordinal(ts.y, ts.m, ts.d)

\* minutes on the time line
Minutes(ts) == Date(ts) * 1440 + ts.hh * 60 + ts.mm

orden_dias == <<"Monday", "Tuesday", "Wednesday", "Thursday", "Friday", "Saturday", "Sunday">>

\* .dt.day_name()
day_name(ts) == orden_dias[((Date(ts) + 6) % 7) + 1]

----------------------------------------------------------------------------
(* load_data: parsing *)

\* text "dd/mm/yyyy hh:mm" as written in the file; the fields may be out of range
ValidDate(t) ==
    /\ t.m \in 1..12
    /\ t.d \in 1..DaysInMonth(t.y, t.m)

ValidTime(t) == t.hh \in 0..23 /\ t.mm \in 0..59

\* does the cell match format '%d/%m/%Y %H:%M'
MatchesCreacion(t) == t.fmt = "dmyHM" /\ ValidDate(t) /\ ValidTime(t)

\* does the cell match format '%d/%m/%Y'
MatchesConversion(t) == t.fmt = "dmy" /\ ValidDate(t)

\* pd.to_datetime(column, format='%d/%m/%Y %H:%M'): raises on a cell that does not parse
CreacionRaises(t) == \E i \in 1..Len(t) :
    notna(t[i].Fecha_de_Creacion) /\ ~MatchesCreacion(Val(t[i].Fecha_de_Creacion))

to_datetime_creacion(c) ==
    IF notna(c)
    THEN <<[y |-> Val(c).y, m |-> Val(c).m, d |-> Val(c).d, hh |-> Val(c).hh, mm |-> Val(c).mm]>>
    ELSE NaT

\* pd.to_datetime(column, format='%d/%m/%Y', errors='coerce')
to_datetime_conversion(c) ==
    IF notna(c) /\ MatchesConversion(Val(c))
    THEN <<[y |-> Val(c).y, m |-> Val(c).m, d |-> Val(c).d, hh |-> 0, mm |-> 0]>>
    ELSE NaT

----------------------------------------------------------------------------
(* load_data: cleaning and derived columns *)

\* df[df['Toma de contacto'].notna()]
DropMissingChannel(t) == SelectSeq(t, LAMBDA r : notna(r.Toma_de_contacto))

\* df[df['Toma de contacto'].str.strip() != '']
DropBlankChannel(t) == SelectSeq(t, LAMBDA r : strip(Val(r.Toma_de_contacto)) # <<>>)

\* .str raises AttributeError on a column read as all-NaN (dtype float64)
StrAccessorRaises(t) == Len(t) > 0 /\ \A i \in 1..Len(t) : ~notna(t[i].Toma_de_contacto)

ParseDates(t) ==
    [i \in 1..Len(t) |->
        [Toma_de_contacto    |-> t[i].Toma_de_contacto,
         Producto            |-> t[i].Producto,
         Fecha_de_Creacion   |-> to_datetime_creacion(t[i].Fecha_de_Creacion),
         Fecha_de_Conversion |-> to_datetime_conversion(t[i].Fecha_de_Conversion)]]

\* variant: lower limit off by one
YearInRange_from2017(c) == notna(c) /\ Val(c).y >= 2017 /\ Val(c).y <= 2021

\* (dt.year >= 2018) & (dt.year <= 2021); a comparison with the year of NaT is False
YearInRange(c) == notna(c) /\ Val(c).y >= 2018 /\ Val(c).y <= 2021

FilterYears(t) == SelectSeq(t, LAMBDA r : YearInRange(r.Fecha_de_Creacion))

Abs(n) == IF n < 0 THEN -n ELSE n

\* Timedelta.days: whole days, rounded towards minus infinity
TimedeltaDays(minutes) == minutes \div 1440

\* (df['Fecha de Conversión'] - df['Fecha de Creación']).dt.days.abs()
Dias_Hasta_Conversion(conv, crea) ==
    IF notna(conv) /\ notna(crea)
    THEN <<Abs(TimedeltaDays(Minutes(Val(conv)) - Minutes(Val(crea))))>>
    ELSE NaN

\* df['Producto'].notna()
Convertido(r) == notna(r.Producto)

AddColumns(t) ==
    [i \in 1..Len(t) |->
        [Toma_de_contacto      |-> t[i].Toma_de_contacto,
         Producto              |-> t[i].Producto,
         Fecha_de_Creacion     |-> t[i].Fecha_de_Creacion,
         Fecha_de_Conversion   |-> t[i].Fecha_de_Conversion,
         Anio_Creacion         |-> Val(t[i].Fecha_de_Creacion).y,
         Mes_Creacion          |-> Val(t[i].Fecha_de_Creacion).m,
         Mes_Anio_Creacion     |-> <<Val(t[i].Fecha_de_Creacion).y, Val(t[i].Fecha_de_Creacion).m>>,
         Convertido            |-> Convertido(t[i]),
         Dias_Hasta_Conversion |->
             Dias_Hasta_Conversion(t[i].Fecha_de_Conversion, t[i].Fecha_de_Creacion)]]

\* the rows load_data works on once the channel filters have run
CleanChannels(t) == DropBlankChannel(DropMissingChannel(t))

\* load_data(): <<the canonical dataset>>, or None when an exception was caught
load_data(file) ==
    IF ~file.exists THEN None
    ELSE IF StrAccessorRaises(file.rows) THEN None
    ELSE IF CreacionRaises(CleanChannels(file.rows)) THEN None
    ELSE <<AddColumns(FilterYears(ParseDates(CleanChannels(file.rows))))>>

----------------------------------------------------------------------------
(* main: widgets and filters *)

SetMin(S) == CHOOSE x \in S : \A y \in S : x <= y
SetMax(S) == CHOOSE x \in S : \A y \in S : x >= y

CreationDates(df) == {Date(Val(df[i].Fecha_de_Creacion)) : i \in 1..Len(df)}

min_date(df) == SetMin(CreationDates(df))
max_date(df) == SetMax(CreationDates(df))

\* ['Todos'] + list(df['Toma de contacto'].unique())
tomas_contacto(df) == {Todos} \cup {Val(df[i].Toma_de_contacto) : i \in 1..Len(df)}

\* ['Todos'] + list(df['Producto'].dropna().unique())
productos(df) ==
    {Todos} \cup {Val(df[i].Producto) : i \in {j \in 1..Len(df) : notna(df[j].Producto)}}

\* the widget values a first run starts from
DefaultSelection(df) ==
    [fecha_inicio          |-> min_date(df),
     fecha_fin             |-> max_date(df),
     toma_seleccionada     |-> {},
     producto_seleccionado |-> {}]

\* df[(dt.date >= fecha_inicio) & (dt.date <= fecha_fin)]
FilterDates(df, fecha_inicio, fecha_fin) ==
    SelectSeq(df, LAMBDA r : /\ Date(Val(r.Fecha_de_Creacion)) >= fecha_inicio
                             /\ Date(Val(r.Fecha_de_Creacion)) <= fecha_fin)

\* Series.isin(values)
isin(c, values) == notna(c) /\ Val(c) \in values

\* if toma_seleccionada: df_filtered[df_filtered['Toma de contacto'].isin(toma_seleccionada)]
FilterToma(t, toma_seleccionada) ==
    IF toma_seleccionada # {}
    THEN SelectSeq(t, LAMBDA r : isin(r.Toma_de_contacto, toma_seleccionada))
    ELSE t

\* variant: the product predicate tests the product column
FilterProducto_byProducto(t, producto_seleccionado) ==
    IF producto_seleccionado # {}
    THEN SelectSeq(t, LAMBDA r : isin(r.Producto, producto_seleccionado))
    ELSE t

\* if producto_seleccionado: df_filtered[df_filtered['Toma de contacto'].isin(producto_seleccionado)]
FilterProducto(t, producto_seleccionado) ==
    IF producto_seleccionado # {}
    THEN SelectSeq(t, LAMBDA r : isin(r.Toma_de_contacto, producto_seleccionado))
    ELSE t

ApplyFilters(df, s) ==
    FilterProducto(
        FilterToma(FilterDates(df, s.fecha_inicio, s.fecha_fin), s.toma_seleccionada),
        s.producto_seleccionado)

----------------------------------------------------------------------------
(* main: arithmetic on columns *)

RECURSIVE GCD(_, _)
GCD(a, b) == IF b = 0 THEN a ELSE GCD(b, a % b)

\* the float a / b, kept exact; 0 / 0 is NaN
Div(a, b) == IF b = 0 THEN NaN ELSE <<a \div GCD(a, b), b \div GCD(a, b)>>

\* variant: a fraction, not a percentage
Percent_fraction(a, b) == Div(a, b)

\* column / column * 100
Percent(a, b) == Div(a * 100, b)

\* Series.count(): the cells that are not missing
count(t, col) == Len(SelectSeq(t, LAMBDA r : notna(r[col])))

\* Series.sum() of a boolean column: the True cells
sum(t, col) == Len(SelectSeq(t, LAMBDA r : r[col]))

RECURSIVE SumDias(_)
SumDias(t) ==
    IF t = <<>> THEN 0 ELSE Val(Head(t).Dias_Hasta_Conversion) + SumDias(Tail(t))

\* Series.mean(): NaN cells are skipped, the mean of no value is NaN
MeanDias(t) ==
    LET present == SelectSeq(t, LAMBDA r : notna(r.Dias_Hasta_Conversion))
    IN  Div(SumDias(present), Len(present))

total_registros(t) == Len(t)

\* variant: a sale is a row with a conversion date
total_ventas_by_date(t) == count(t, "Fecha_de_Conversion")

total_ventas(t) == sum(t, "Convertido")

\* variant: no guard on the division
tasa_conversion_unguarded(t) == Percent(total_ventas(t), total_registros(t))

\* (total_ventas / total_registros * 100) if total_registros > 0 else 0
tasa_conversion(t) ==
    IF total_registros(t) > 0 THEN Percent(total_ventas(t), total_registros(t)) ELSE <<0, 1>>

tiempo_promedio_conversion(t) == MeanDias(SelectSeq(t, LAMBDA r : r.Convertido))

Metrics(t) ==
    [total_registros            |-> total_registros(t),
     total_ventas               |-> total_ventas(t),
     tasa_conversion            |-> tasa_conversion(t),
     tiempo_promedio_conversion |-> tiempo_promedio_conversion(t)]

----------------------------------------------------------------------------
(* main: groupby *)

\* the elements of S in increasing order of rank
SortSet(S, rank) ==
    [k \in 1..Cardinality(S) |->
        CHOOSE x \in S : Cardinality({y \in S : rank[y] < rank[x]}) = k - 1]

\* the values of a column
Unique(t, col) == {t[i][col] : i \in 1..Len(t)}

\* sort orders of the key types: integers, month periods, weekday categories, text
IntRank(S) == [x \in S |-> x]
PeriodRank(S) == [p \in S |-> p[1] * 12 + p[2]]
DayRank(name) == CHOOSE i \in 1..Len(orden_dias) : orden_dias[i] = name
CategoryRank(S) == [x \in S |-> DayRank(x)]
TextRank(S) == [x \in S |-> Cardinality({y \in S : StrLess(Val(y), Val(x))})]

\* groupby(col).agg({'Toma de contacto': 'count', 'Convertido': 'sum'}).reset_index()
GroupAgg(t, keys, col) ==
    [i \in 1..Len(keys) |->
        LET group == SelectSeq(t, LAMBDA r : r[col] = keys[i])
        IN  [key              |-> keys[i],
             Toma_de_contacto |-> count(group, "Toma_de_contacto"),
             Convertido       |-> sum(group, "Convertido")]]

\* data['Tasa_Conversion'] = data['Convertido'] / data['Toma de contacto'] * 100
WithTasa(data) ==
    [i \in 1..Len(data) |->
        [key              |-> data[i].key,
         Toma_de_contacto |-> data[i].Toma_de_contacto,
         Convertido       |-> data[i].Convertido,
         Tasa_Conversion  |-> Percent(data[i].Convertido, data[i].Toma_de_contacto)]]

monthly_data(t) ==
    LET keys == Unique(t, "Mes_Anio_Creacion")
    IN  WithTasa(GroupAgg(t, SortSet(keys, PeriodRank(keys)), "Mes_Anio_Creacion"))

yearly_data(t) ==
    LET keys == Unique(t, "Anio_Creacion")
    IN  WithTasa(GroupAgg(t, SortSet(keys, IntRank(keys)), "Anio_Creacion"))

\* df_filtered['Dia_Semana'] = pd.Categorical(dt.day_name(), categories=orden_dias, ordered=True)
AddDiaSemana(t) ==
    [i \in 1..Len(t) |-> [c \in DOMAIN t[i] \cup {"Dia_Semana"} |->
        IF c = "Dia_Semana" THEN day_name(Val(t[i].Fecha_de_Creacion)) ELSE t[i][c]]]

\* df_filtered['Fecha_Solo'] = df_filtered['Fecha de Creación'].dt.date
AddFechaSolo(t) ==
    [i \in 1..Len(t) |-> [c \in DOMAIN t[i] \cup {"Fecha_Solo"} |->
        IF c = "Fecha_Solo" THEN Date(Val(t[i].Fecha_de_Creacion)) ELSE t[i][c]]]

AlphabeticalDays == <<"Friday", "Monday", "Saturday", "Sunday", "Thursday", "Tuesday", "Wednesday">>

\* variant: the weekday column is plain text, grouped in alphabetical order
DiaSemanaKeys_plain(t, obs) ==
    LET keys == Unique(t, "Dia_Semana")
    IN  SortSet(keys, [x \in keys |-> CHOOSE k \in 1..Len(AlphabeticalDays) : AlphabeticalDays[k] = x])

\* groupby on a categorical: every category when observed=False, else those present
DiaSemanaKeys(t, obs) ==
    IF obs
    THEN LET keys == Unique(t, "Dia_Semana") IN SortSet(keys, CategoryRank(keys))
    ELSE orden_dias

dia_semana_data(t, obs) == WithTasa(GroupAgg(t, DiaSemanaKeys(t, obs), "Dia_Semana"))

daily_data(t) ==
    LET keys == Unique(t, "Fecha_Solo")
    IN  WithTasa(GroupAgg(t, SortSet(keys, IntRank(keys)), "Fecha_Solo"))

----------------------------------------------------------------------------
(* main: tables sorted by sales *)

\* variant: ascending order
sort_values_ascending(data, by, order) ==
    LET Before(i, j) ==
            \/ data[i][by] < data[j][by]
            \/ (data[i][by] = data[j][by] /\ order[i] < order[j])
    IN  [k \in 1..Len(data) |->
            data[CHOOSE i \in 1..Len(data) :
                    Cardinality({j \in 1..Len(data) : Before(j, i)}) = k - 1]]

\* sort_values(by, ascending=False) with the default kind='quicksort': rows in
\* descending order of by; the algorithm is not stable, so rows with equal by
\* come out in the order the build's argsort gives their positions
sort_values(data, by, order) ==
    LET Before(i, j) ==
            \/ data[i][by] > data[j][by]
            \/ (data[i][by] = data[j][by] /\ order[i] < order[j])
    IN  [k \in 1..Len(data) |->
            data[CHOOSE i \in 1..Len(data) :
                    Cardinality({j \in 1..Len(data) : Before(j, i)}) = k - 1]]

\* groupby('Toma de contacto').agg(Total_Registros=count, Total_Ventas=sum), with the rate
ContactoGroups(t) ==
    LET cells == Unique(t, "Toma_de_contacto")
        keys == SortSet(cells, TextRank(cells))
    IN  [i \in 1..Len(keys) |->
            LET group == SelectSeq(t, LAMBDA r : r.Toma_de_contacto = keys[i])
            IN  [Toma_de_contacto |-> Val(keys[i]),
                 Total_Registros  |-> count(group, "Toma_de_contacto"),
                 Total_Ventas     |-> sum(group, "Convertido"),
                 Tasa_Conversion  |->
                     Percent(sum(group, "Convertido"), count(group, "Toma_de_contacto"))]]

contacto_data(t, order) == sort_values(ContactoGroups(t), "Total_Ventas", order)

\* df_filtered[df_filtered['Convertido']].groupby('Producto').agg(Cantidad_Ventas=count)
ProductoGroups(t) ==
    LET sold == SelectSeq(t, LAMBDA r : r.Convertido)
        cells == Unique(sold, "Producto")
        keys == SortSet(cells, TextRank(cells))
    IN  [i \in 1..Len(keys) |->
            LET group == SelectSeq(sold, LAMBDA r : r.Producto = keys[i])
            IN  [Producto        |-> Val(keys[i]),
                 Cantidad_Ventas |-> count(group, "Producto")]]

producto_data(t, order) == sort_values(ProductoGroups(t), "Cantidad_Ventas", order)

\* the six grouped tables of one pass over the filtered view t
Tables(t, obs, order) ==
    LET with_dia == AddDiaSemana(t)
    IN  [monthly_data    |-> monthly_data(t),
         yearly_data     |-> yearly_data(t),
         contacto_data   |-> contacto_data(t, order),
         producto_data   |-> producto_data(t, order),
         dia_semana_data |-> dia_semana_data(with_dia, obs),
         daily_data      |-> daily_data(AddFechaSolo(with_dia))]

\* variant: the view shares its data with df
FrameAfterPass_shared(df, view) == Val(view)

\* df after a pass: df[mask] is a new frame, so the columns main() adds to
\* df_filtered are not added to df
FrameAfterPass(df, view) == df

----------------------------------------------------------------------------
(* Input: the file *)

Creacion(d, m, y, hh, mm) == <<[fmt |-> "dmyHM", d |-> d, m |-> m, y |-> y, hh |-> hh, mm |-> mm]>>
Conversion(d, m, y) == <<[fmt |-> "dmy", d |-> d, m |-> m, y |-> y]>>

RawRow(canal, creacion, conversion, producto) ==
    [Toma_de_contacto    |-> canal,
     Fecha_de_Creacion   |-> creacion,
     Fecha_de_Conversion |-> conversion,
     Producto            |-> producto]

RawRows ==
    { RawRow(<<Web>>, Creacion(1, 1, 2019, 10, 0), Conversion(1, 1, 2019), <<ProdA>>),
      RawRow(<<Tel>>, Creacion(1, 1, 2019, 18, 45), NaN, NaN),
      RawRow(<<Tel>>, Creacion(31, 12, 2021, 23, 59), Creacion(3, 1, 2022, 10, 0), <<Web>>),
      RawRow(<<Spaces>>, Creacion(31, 2, 2019, 10, 0), Conversion(2, 1, 2019), <<ProdA>>),
      RawRow(NaN, Creacion(2, 1, 2019, 8, 30), NaN, NaN),
      RawRow(<<Tel>>, Creacion(31, 12, 2017, 23, 0), Conversion(5, 1, 2018), <<ProdA>>),
      RawRow(<<Tel>>, Creacion(31, 2, 2019, 10, 0), NaN, NaN) }

RawTables == UNION {[1..n -> RawRows] : n \in 0..MaxRows}

Files ==
    {[exists |-> FALSE, rows |-> <<>>]} \cup {[exists |-> TRUE, rows |-> t] : t \in RawTables}

\* at most this many groups: the file has two channels and two products
MaxGroups == Cardinality({Web, Tel})

\* the orders an argsort may give equal keys; the identity is the stable one
TieOrders ==
    {p \in [1..MaxGroups -> 1..MaxGroups] : \A i, j \in 1..MaxGroups : p[i] = p[j] => i = j}

----------------------------------------------------------------------------
(* The program *)

Init ==
    /\ raw \in Files
    /\ observed \in BOOLEAN
    /\ argsort \in TieOrders
    /\ cache = <<>>
    /\ screen = "none"
    /\ sel = <<>>
    /\ df_filtered = <<>>
    /\ metrics = <<>>
    /\ tables = <<>>

\* main() from the filters on, for the widget values s
Render(df, s) ==
    LET t == ApplyFilters(df, s)
    IN  /\ screen' = "dashboard"
        /\ sel' = <<s>>
        /\ metrics' = <<Metrics(t)>>
        /\ tables' = <<Tables(t, observed, argsort)>>
        /\ df_filtered' = <<AddFechaSolo(AddDiaSemana(t))>>

\* first run of main(): load_data() runs and its result is cached
MainFirstRun ==
    /\ cache = <<>>
    /\ LET loaded == load_data(raw)
       IN  IF loaded = None
           THEN /\ cache' = <<loaded>>
                /\ screen' = "error"
                /\ UNCHANGED <<sel, df_filtered, metrics, tables>>
           ELSE IF Len(Val(loaded)) = 0
           THEN \* min() of no date is NaT, which st.date_input cannot take
                /\ cache' = <<loaded>>
                /\ screen' = "exception"
                /\ UNCHANGED <<sel, df_filtered, metrics, tables>>
           ELSE /\ Render(Val(loaded), DefaultSelection(Val(loaded)))
                /\ cache' = <<<<FrameAfterPass(Val(loaded), df_filtered')>>>>
    /\ UNCHANGED <<raw, observed, argsort>>

\* a widget changed: main() runs again on the cached dataset with the values s
Rerun(s) ==
    /\ Render(Val(Val(cache)), s)
    /\ cache' = <<<<FrameAfterPass(Val(Val(cache)), df_filtered')>>>>
    /\ UNCHANGED <<raw, observed, argsort>>

\* the widgets exist once a run got past them
Interactive == screen = "dashboard"

\* st.sidebar.date_input("Fecha de inicio", min_value=min_date, max_value=max_date)
SetFechaInicio ==
    /\ Interactive
    /\ \E d \in CreationDates(Val(Val(cache))) \ {Val(sel).fecha_inicio} :
          Rerun([Val(sel) EXCEPT !.fecha_inicio = d])

\* st.sidebar.date_input("Fecha de fin", min_value=min_date, max_value=max_date)
SetFechaFin ==
    /\ Interactive
    /\ \E d \in CreationDates(Val(Val(cache))) \ {Val(sel).fecha_fin} :
          Rerun([Val(sel) EXCEPT !.fecha_fin = d])

Toggle(S, x) == IF x \in S THEN S \ {x} ELSE S \cup {x}

\* st.sidebar.multiselect("Toma de contacto", options=tomas_contacto)
ToggleToma ==
    /\ Interactive
    /\ \E x \in tomas_contacto(Val(Val(cache))) :
          Rerun([Val(sel) EXCEPT !.toma_seleccionada = Toggle(@, x)])

\* st.sidebar.multiselect("Producto", options=productos)
ToggleProducto ==
    /\ Interactive
    /\ \E x \in productos(Val(Val(cache))) :
          Rerun([Val(sel) EXCEPT !.producto_seleccionado = Toggle(@, x)])

Next == MainFirstRun \/ SetFechaInicio \/ SetFechaFin \/ ToggleToma \/ ToggleProducto

Spec == Init /\ [][Next]_vars

----------------------------------------------------------------------------
(* Vocabulary of the properties *)

Loaded == cache # <<>> /\ Val(cache) # None
Dashboard == screen = "dashboard"

\* the canonical dataset, computed from the file
Canonical == Val(load_data(raw))

\* the filtered view without the two columns main() adds
View == [i \in 1..Len(Val(df_filtered)) |->
            [c \in DOMAIN Val(df_filtered)[i] \ {"Dia_Semana", "Fecha_Solo"} |->
                Val(df_filtered)[i][c]]]

RowsWhere(t, Test(_)) == {i \in 1..Len(t) : Test(t[i])}

RECURSIVE SumOver(_, _)
SumOver(S, f) ==
    IF S = {} THEN 0
    ELSE LET i == CHOOSE x \in S : TRUE IN f[i] + SumOver(S \ {i}, f)

----------------------------------------------------------------------------
(* C1 *)

InSelection(r, s) ==
    /\ s.fecha_inicio <= Date(Val(r.Fecha_de_Creacion))
    /\ Date(Val(r.Fecha_de_Creacion)) <= s.fecha_fin
    /\ (s.toma_seleccionada = {} \/ Val(r.Toma_de_contacto) \in s.toma_seleccionada)
    /\ (s.producto_seleccionado = {} \/ Val(r.Toma_de_contacto) \in s.producto_seleccionado)

\* C1: the filtered view is exactly the canonical rows, in their order, whose
\* creation date lies in [fecha_inicio, fecha_fin], whose channel is in the
\* channel selection when that is not empty, and whose channel (not product)
\* is in the product selection when that is not empty.
C1_FilteredView ==
    Dashboard => View = SelectSeq(Canonical, LAMBDA r : InSelection(r, Val(sel)))

\* channel selection {"Web"}, no product selection: a Web row is kept, a Tel row is left out
C1_Witness ==
    /\ Dashboard
    /\ Val(sel).toma_seleccionada = {Web}
    /\ Val(sel).producto_seleccionado = {}
    /\ Len(View) < Len(Canonical)
    /\ \E i \in 1..Len(View) : View[i].Toma_de_contacto = <<Web>>

----------------------------------------------------------------------------
(* C2 *)

Unparseable(r) ==
    /\ notna(r.Toma_de_contacto)
    /\ strip(Val(r.Toma_de_contacto)) # <<>>
    /\ notna(r.Fecha_de_Creacion)
    /\ ~MatchesCreacion(Val(r.Fecha_de_Creacion))

WithoutUnparseable(file) ==
    [file EXCEPT !.rows = SelectSeq(file.rows, LAMBDA r : ~Unparseable(r))]

\* C2: a row with a non-blank channel and a creation timestamp that does not
\* parse is excluded alone: load_data returns the dataset of the other rows.
C2_ExcludesOnlyThatRow ==
    (cache # <<>> /\ raw.exists /\ \E i \in 1..Len(raw.rows) : Unparseable(raw.rows[i]))
        => (Val(cache) # None /\ Val(cache) = load_data(WithoutUnparseable(raw)))

----------------------------------------------------------------------------
(* C3 *)

----------------------------------------------------------------------------
(* C4 *)

\* rate = converted / count * 100 when count > 0, undefined when count = 0
RateIs(rate, converted, n) ==
    IF n = 0 THEN rate = NaN
    ELSE rate # NaN /\ rate[1] * n = converted * 100 * rate[2]

GroupRowOk(row, Key(_)) ==
    LET members == RowsWhere(Val(df_filtered), LAMBDA r : Key(r) = row.key)
        sold == RowsWhere(Val(df_filtered), LAMBDA r : Key(r) = row.key /\ r.Convertido)
    IN  /\ row.Toma_de_contacto = Cardinality(members)
        /\ row.Convertido = Cardinality(sold)
        /\ RateIs(row.Tasa_Conversion, Cardinality(sold), Cardinality(members))

ContactoRowOk(row) ==
    LET members == RowsWhere(Val(df_filtered),
                             LAMBDA r : Val(r.Toma_de_contacto) = row.Toma_de_contacto)
        sold == RowsWhere(Val(df_filtered),
                          LAMBDA r : Val(r.Toma_de_contacto) = row.Toma_de_contacto /\ r.Convertido)
    IN  /\ row.Total_Registros = Cardinality(members)
        /\ row.Total_Ventas = Cardinality(sold)
        /\ RateIs(row.Tasa_Conversion, Cardinality(sold), Cardinality(members))

\* C4: in the monthly, yearly, channel, weekday and daily tables every row has
\* count = number of filtered rows with its key, converted count = number of
\* those that are converted, and rate = converted / count * 100, undefined
\* when count = 0.
C4_AggregationRows ==
    Dashboard =>
        LET T == Val(tables)
        IN  /\ \A i \in 1..Len(T.monthly_data) :
                  GroupRowOk(T.monthly_data[i], LAMBDA r : r.Mes_Anio_Creacion)
            /\ \A i \in 1..Len(T.yearly_data) :
                  GroupRowOk(T.yearly_data[i], LAMBDA r : r.Anio_Creacion)
            /\ \A i \in 1..Len(T.dia_semana_data) :
                  GroupRowOk(T.dia_semana_data[i], LAMBDA r : r.Dia_Semana)
            /\ \A i \in 1..Len(T.daily_data) :
                  GroupRowOk(T.daily_data[i], LAMBDA r : r.Fecha_Solo)
            /\ \A i \in 1..Len(T.contacto_data) : ContactoRowOk(T.contacto_data[i])

\* two 2019 rows, one with a product: the 2019 row is count 2, converted 1, rate 50;
\* and a weekday without rows has an undefined rate
C4_Witness ==
    /\ Dashboard
    /\ \E i \in 1..Len(Val(tables).yearly_data) :
          Val(tables).yearly_data[i] =
              [key |-> 2019, Toma_de_contacto |-> 2, Convertido |-> 1, Tasa_Conversion |-> <<50, 1>>]
    /\ \E i \in 1..Len(Val(tables).dia_semana_data) :
          /\ Val(tables).dia_semana_data[i].Toma_de_contacto = 0
          /\ Val(tables).dia_semana_data[i].Tasa_Conversion = NaN

----------------------------------------------------------------------------
(* C5 *)

\* whole days contained in |conversion - creation|
WholeDaysApart(r) ==
    Abs(Minutes(Val(r.Fecha_de_Conversion)) - Minutes(Val(r.Fecha_de_Creacion))) \div 1440

\* C5: days_to_conversion is absent exactly when the conversion time is
\* absent, and otherwise is the number of whole days in |conversion - creation|.
C5_WholeDaysOfAbsoluteDifference ==
    Loaded => \A i \in 1..Len(Val(Val(cache))) :
        LET r == Val(Val(cache))[i]
        IN  /\ (r.Dias_Hasta_Conversion = NaN) <=> (r.Fecha_de_Conversion = NaT)
            /\ notna(r.Fecha_de_Conversion) => r.Dias_Hasta_Conversion = <<WholeDaysApart(r)>>

----------------------------------------------------------------------------
(* C6 *)

ChannelOk(r) == notna(r.Toma_de_contacto) /\ \E k \in 1..Len(Val(r.Toma_de_contacto)) :
                    Val(r.Toma_de_contacto)[k] # " "

RawYearOk(r) == notna(r.Fecha_de_Creacion) /\ Val(r.Fecha_de_Creacion).y \in 2018..2021

\* C6: every row of the dataset load_data returns has a channel that is present
\* and not blank, a creation year in 2018..2021 and converted = (product is
\* present); and the rows are exactly the raw rows meeting the channel and year
\* conditions.
C6_CanonicalRows ==
    Loaded =>
        /\ \A i \in 1..Len(Val(Val(cache))) :
              LET r == Val(Val(cache))[i]
              IN  /\ ChannelOk(r)
                  /\ r.Anio_Creacion \in 2018..2021
                  /\ Val(r.Fecha_de_Creacion).y \in 2018..2021
                  /\ r.Convertido <=> (r.Producto # NaN)
        /\ [i \in 1..Len(Val(Val(cache))) |->
                <<Val(Val(cache))[i].Toma_de_contacto, Val(Val(cache))[i].Producto>>]
           = LET kept == SelectSeq(raw.rows, LAMBDA r : ChannelOk(r) /\ RawYearOk(r))
             IN  [i \in 1..Len(kept) |-> <<kept[i].Toma_de_contacto, kept[i].Producto>>]

\* a dataset with a row, from a file that also has a row without a channel, with a blank
\* channel or outside the years
C6_Witness ==
    /\ Loaded
    /\ Len(Val(Val(cache))) > 0
    /\ \E i \in 1..Len(raw.rows) : ~RawYearOk(raw.rows[i]) \/ ~ChannelOk(raw.rows[i])

----------------------------------------------------------------------------
(* C7 *)

\* C7: the counts of the channel table add up to the headline record count and
\* the counts of the product table add up to the headline converted count.
C7_Partition ==
    Dashboard =>
        /\ SumOver(DOMAIN Val(tables).contacto_data,
                   [i \in DOMAIN Val(tables).contacto_data |->
                       Val(tables).contacto_data[i].Total_Registros])
           = Val(metrics).total_registros
        /\ SumOver(DOMAIN Val(tables).producto_data,
                   [i \in DOMAIN Val(tables).producto_data |->
                       Val(tables).producto_data[i].Cantidad_Ventas])
           = Val(metrics).total_ventas

\* two channels and two products share the filtered rows
C7_Witness ==
    /\ Dashboard
    /\ Len(Val(tables).contacto_data) > 1
    /\ Len(Val(tables).producto_data) > 1
    /\ Val(metrics).total_ventas > 1

----------------------------------------------------------------------------
(* C8 *)

\* C8: after any sequence of passes the cached dataset is the one load_data
\* produced, and the view, the metrics and the tables of the last pass are those
\* computed from that dataset and the current selection alone.
C8_CanonicalUntouched ==
    /\ cache # <<>> => Val(cache) = load_data(raw)
    /\ Dashboard =>
          LET t == ApplyFilters(Canonical, Val(sel))
          IN  /\ View = t
              /\ metrics = <<Metrics(t)>>
              /\ tables = <<Tables(t, observed, argsort)>>

\* a later pass (the selection is no longer the first run's) whose view left rows out
C8_Witness ==
    /\ Dashboard
    /\ Val(sel) # DefaultSelection(Canonical)
    /\ Len(Val(df_filtered)) > 0
    /\ Len(Val(df_filtered)) < Len(Val(Val(cache)))

----------------------------------------------------------------------------
(* C9 *)

Weekdays == <<"Monday", "Tuesday", "Wednesday", "Thursday", "Friday", "Saturday", "Sunday">>

WeekdayIndex(name) == CHOOSE k \in 1..Len(Weekdays) : Weekdays[k] = name

\* C9: the rows of the weekday table are in the order Monday, ..., Sunday.
C9_WeekdayOrder ==
    Dashboard =>
        \A i, j \in 1..Len(Val(tables).dia_semana_data) :
            i < j => WeekdayIndex(Val(tables).dia_semana_data[i].key)
                        < WeekdayIndex(Val(tables).dia_semana_data[j].key)

\* a Friday row comes before a Tuesday row in the view; the table has Tuesday first
C9_Witness ==
    /\ Dashboard
    /\ \E i, j \in 1..Len(Val(df_filtered)) :
          /\ i < j
          /\ Val(df_filtered)[i].Dia_Semana = "Friday"
          /\ Val(df_filtered)[j].Dia_Semana = "Tuesday"
    /\ \E i, j \in 1..Len(Val(tables).dia_semana_data) :
          /\ i < j
          /\ Val(tables).dia_semana_data[i].key = "Tuesday"
          /\ Val(tables).dia_semana_data[i].Toma_de_contacto > 0
          /\ Val(tables).dia_semana_data[j].key = "Friday"
          /\ Val(tables).dia_semana_data[j].Toma_de_contacto > 0

----------------------------------------------------------------------------
(* C10 *)

Descending(data, By(_)) == \A i, j \in 1..Len(data) : i < j => By(data[i]) >= By(data[j])

\* equal counts keep the order of the group keys
TiesInKeyOrder(data, By(_), KeyOf(_)) ==
    \A i, j \in 1..Len(data) :
        (i < j /\ By(data[i]) = By(data[j])) => StrLess(KeyOf(data[i]), KeyOf(data[j]))

====
